---------------------------- MODULE Spec2Model ----------------------------
(***************************************************************************)
(* A model of arcade/sprite.py: SpriteList (an ordered collection of       *)
(* sprites) and Sprite (a positioned, rotatable, textured rectangle).      *)
(*                                                                         *)
(* Numbers.  Every length (center_x, center_y, width, height, a texture's  *)
(* pixel size, the arguments of set_position and of the edge setters) is   *)
(* held in HALF UNITS: the model's integer v stands for the program's      *)
(* value v/2.  All the arithmetic of the code on these values is addition, *)
(* subtraction, min, max, the product with the dimension-less scale, the   *)
(* halving of a width and a rotation by a multiple of 90 degrees, so the   *)
(* integers are exact: `self.width / 2` is `width \div 2`, taken of an     *)
(* even number only.  scale, angles (degrees) and indices are plain.       *)
(*                                                                         *)
(* Errors.  A call that raises leaves its exception's name in `err`; a     *)
(* call that returns leaves "none" there.                                  *)
(***************************************************************************)
EXTENDS Integers, Sequences, FiniteSets, TLC

VARIABLES
    sprite_list,    \* SpriteList.sprite_list of every list: ListIds -> Seq(Items)
    sprites,        \* the fields of every Sprite object: SpriteIds -> record
    err,            \* outcome of the last call: "none" or the exception raised
    last            \* the last call: [op, args, n, rep, rep_n] (see Call)

vars == <<sprite_list, sprites, err, last>>

----------------------------------------------------------------------------
(* Bounds of the model *)

\* most appends the collection protocol is run for: the back-references of
\* all the sprites plus the entries that are no sprites
MaxAppends == 4

\* longest frame sequence (self.textures) a sprite is grown to
MaxFrames == 2

\* SpriteList.update() is run while every sprite is within this distance of
\* the origin on both axes
MaxCoord == 2

----------------------------------------------------------------------------
(* The objects *)

ListIds == {"L1", "L2"}
SpriteIds == {"s1", "s2"}
\* an object that is no Sprite: it has no _register_sprite_list, update or draw
NonSprite == "obj"
Items == SpriteIds \cup {NonSprite}

\* the value of the attribute _texture before any assignment to it
NoTexture == [kind |-> "unset", width |-> 0, height |-> 0]

\* Texture objects (draw_commands.Texture: an image region of known pixel
\* width and height), and an object that is no Texture
Texture(width, height) == [kind |-> "Texture", width |-> width, height |-> height]
NotATexture == [kind |-> "other", width |-> 0, height |-> 0]

\* `x in seq`: SpriteList has __iter__ and no __contains__, so membership
\* iterates the sequence and compares each entry (by identity) with x
Contains(seq, x) == \E i \in DOMAIN seq : seq[i] = x

\* number of entries of seq equal to x
Count(seq, x) == Cardinality({i \in DOMAIN seq : seq[i] = x})

\* before any call
NoCall == [op |-> "new", args |-> <<>>, n |-> 0, rep |-> FALSE, rep_n |-> 0]

\* The record of a call: its name, its arguments (the receiver first), the
\* number n of entries it deleted from SpriteLists, whether it repeats the
\* call made just before it (same name, same arguments), and then that
\* call's n.
Repeats(op, args) == IF last.op = op THEN last.args = args ELSE FALSE

Call(op, args, n) ==
    [op |-> op, args |-> args, n |-> n,
     rep |-> Repeats(op, args),
     rep_n |-> IF Repeats(op, args) THEN last.n ELSE 0]

----------------------------------------------------------------------------
(* Sprite.__init__ with no file name: the fields of a frame-less sprite *)

Sprite_fresh(scale) ==
    [class |-> "Sprite",
     init |-> TRUE,
     texture |-> NoTexture,
     textures |-> <<>>,
     width |-> 0,
     height |-> 0,
     cur_texture_index |-> 0,
     scale |-> scale,
     center_x |-> 0,
     center_y |-> 0,
     angle |-> 0,
     change_x |-> 0,
     change_y |-> 0,
     change_angle |-> 0,
     alpha |-> 1,
     sprite_lists |-> <<>>,
     transparent |-> TRUE,
     apply_gravity |-> FALSE]

\* a Sprite object whose __init__ has not run to its end: no attribute is set
Unbuilt == [Sprite_fresh(0) EXCEPT !.init = FALSE]

----------------------------------------------------------------------------
(* SpriteList *)

\* a removal of the last entry equal to item instead of the first
RemoveLast(seq, item) ==
    LET k == CHOOSE i \in DOMAIN seq :
                 /\ seq[i] = item
                 /\ \A j \in (i + 1)..Len(seq) : seq[j] # item
    IN  SubSeq(seq, 1, k - 1) \o SubSeq(seq, k + 1, Len(seq))

\* list.remove(item) of Python on a sequence holding item: the first entry
\* equal to item is deleted, the others keep their order
RemoveFirst(seq, item) ==
    LET k == CHOOSE i \in DOMAIN seq :
                 /\ seq[i] = item
                 /\ \A j \in 1..(i - 1) : seq[j] # item
    IN  SubSeq(seq, 1, k - 1) \o SubSeq(seq, k + 1, Len(seq))

\* a registration that records nothing
register_sprite_list_skip(sp, new_list) == sp

\* a registration that keeps the back-references as a set: a list already
\* registered is not registered again
register_sprite_list_as_set(sp, new_list) ==
    IF Contains(sp.sprite_lists, new_list)
    THEN sp
    ELSE [sp EXCEPT !.sprite_lists = Append(@, new_list)]

\* Sprite._register_sprite_list(new_list): the fields of the sprite afterwards
register_sprite_list(sp, new_list) ==
    [sp EXCEPT !.sprite_lists = Append(@, new_list)]

\* the appends that have left a trace: every back-reference of every sprite
\* and every entry of a list that is no sprite
RECURSIVE Registered(_)
Registered(ids) ==
    IF ids = {} THEN 0
    ELSE LET s == CHOOSE x \in ids : TRUE
         IN  Len(sprites[s].sprite_lists) + Registered(ids \ {s})

RECURSIVE Strangers(_)
Strangers(ids) ==
    IF ids = {} THEN 0
    ELSE LET l == CHOOSE x \in ids : TRUE
         IN  Count(sprite_list[l], NonSprite) + Strangers(ids \ {l})

Appended == Registered(SpriteIds) + Strangers(ListIds)

\* SpriteList.append(item): the item is put at the end of the sequence FIRST,
\* then item._register_sprite_list(self) is called; on an item that is no
\* Sprite that call raises AttributeError, with the item already in the list
SpriteList_append(l, item) ==
    /\ Appended < MaxAppends
    /\ sprite_list' = [sprite_list EXCEPT ![l] = Append(@, item)]
    /\ IF item \in SpriteIds
       THEN /\ sprites' = [sprites EXCEPT ![item] = register_sprite_list(@, l)]
            /\ err' = "none"
       ELSE /\ sprites' = sprites
            /\ err' = "AttributeError"
    /\ last' = Call("append", <<l, item>>, 0)

\* a remove that returns quietly when item is absent
remove_quiet(seq, item) ==
    IF Contains(seq, item)
    THEN [seq |-> RemoveFirst(seq, item), err |-> "none"]
    ELSE [seq |-> seq, err |-> "none"]

\* SpriteList.remove(item): list.remove raises ValueError when item is absent
remove(seq, item) ==
    IF Contains(seq, item)
    THEN [seq |-> RemoveFirst(seq, item), err |-> "none"]
    ELSE [seq |-> seq, err |-> "ValueError"]

SpriteList_remove(l, item) ==
    /\ sprite_list' = [sprite_list EXCEPT ![l] = remove(@, item).seq]
    /\ err' = remove(sprite_list[l], item).err
    /\ sprites' = sprites
    /\ last' = Call("remove", <<l, item>>,
                    Len(sprite_list[l]) - Len(remove(sprite_list[l], item).seq))

\* SpriteList.__len__ and SpriteList.__iter__
SpriteList_len(l) == Len(sprite_list[l])
SpriteList_iter(l) == sprite_list[l]

\* SpriteList.pop(): list.pop raises IndexError on an empty list
pop(seq) ==
    IF seq # <<>>
    THEN [seq |-> SubSeq(seq, 1, Len(seq) - 1), err |-> "none"]
    ELSE [seq |-> seq, err |-> "IndexError"]

SpriteList_pop(l) ==
    /\ sprite_list' = [sprite_list EXCEPT ![l] = pop(@).seq]
    /\ err' = pop(sprite_list[l]).err
    /\ sprites' = sprites
    /\ last' = Call("pop", <<l>>, Len(sprite_list[l]) - Len(pop(sprite_list[l]).seq))

----------------------------------------------------------------------------
(* Sprite.kill *)

\* the loop of kill over the entries `todo` of self.sprite_lists, in order:
\* `if self in sprite_list: sprite_list.remove(self)`.  The result is the
\* lists afterwards and the error of the first remove that raises (none does
\* under the membership test).
RECURSIVE kill_loop(_, _, _)
kill_loop(s, todo, lists) ==
    IF todo = <<>>
    THEN [lists |-> lists, err |-> "none"]
    ELSE LET l == Head(todo)
         IN  IF Contains(lists[l], s)
             THEN kill_loop(s, Tail(todo),
                            [lists EXCEPT ![l] = remove(@, s).seq])
             ELSE kill_loop(s, Tail(todo), lists)

\* the loop without its membership test
RECURSIVE kill_loop_unguarded(_, _, _)
kill_loop_unguarded(s, todo, lists) ==
    IF todo = <<>>
    THEN [lists |-> lists, err |-> "none"]
    ELSE LET l == Head(todo)
             r == remove(lists[l], s)
         IN  IF r.err # "none"
             THEN [lists |-> lists, err |-> r.err]
             ELSE kill_loop_unguarded(s, Tail(todo),
                                      [lists EXCEPT ![l] = r.seq])

\* the loop run once per distinct list instead of once per back-reference
kill_each_list_once(s, todo, lists) ==
    [lists |-> [l \in DOMAIN lists |->
                    IF Contains(todo, l) /\ Contains(lists[l], s)
                    THEN remove(lists[l], s).seq
                    ELSE lists[l]],
     err |-> "none"]

kill_unguarded(s, todo, lists) == kill_loop_unguarded(s, todo, lists)

\* the loop with `sprite_list.pop()` in the place of `sprite_list.remove(self)`
RECURSIVE kill_loop_pops(_, _, _)
kill_loop_pops(s, todo, lists) ==
    IF todo = <<>>
    THEN [lists |-> lists, err |-> "none"]
    ELSE LET l == Head(todo)
         IN  IF Contains(lists[l], s)
             THEN kill_loop_pops(s, Tail(todo),
                                 [lists EXCEPT ![l] = pop(@).seq])
             ELSE kill_loop_pops(s, Tail(todo), lists)

kill_pops(s, todo, lists) == kill_loop_pops(s, todo, lists)

\* all the entries of all the lists
RECURSIVE TotalLen(_, _)
TotalLen(lists, ids) ==
    IF ids = {} THEN 0
    ELSE LET l == CHOOSE x \in ids : TRUE
         IN  Len(lists[l]) + TotalLen(lists, ids \ {l})

kill(s, todo, lists) == kill_loop(s, todo, lists)

Sprite_kill(s) ==
    LET r == kill(s, sprites[s].sprite_lists, sprite_list)
    IN  /\ sprite_list' = r.lists
        /\ err' = r.err
        /\ sprites' = sprites
        /\ last' = Call("kill", <<s>>,
                        TotalLen(sprite_list, ListIds) - TotalLen(r.lists, ListIds))

----------------------------------------------------------------------------
(* update *)

\* Sprite.update(): the fields of the sprite afterwards
update(sp) ==
    [sp EXCEPT !.center_x = @ + sp.change_x,
               !.center_y = @ + sp.change_y,
               !.angle = @ + sp.change_angle]

Abs(v) == IF v < 0 THEN -v ELSE v

\* math.degrees(math.atan2(y, x)) for a direction along an axis or a
\* diagonal, where it is a whole number of degrees; atan2(0, 0) is 0
atan2_degrees(y, x) ==
    CASE y = 0 /\ x >= 0 -> 0
      [] y = 0 /\ x < 0 -> 180
      [] x = 0 /\ y > 0 -> 90
      [] x = 0 /\ y < 0 -> -90
      [] x > 0 /\ y = x -> 45
      [] x < 0 /\ y = -x -> 135
      [] x > 0 /\ y = -x -> -45
      [] x < 0 /\ y = x -> -135

\* TurningSprite(): a Sprite() of the class TurningSprite
TurningSprite_fresh == [Sprite_fresh(0) EXCEPT !.class = "TurningSprite"]

\* TurningSprite.update(): Sprite.update(), then the angle of the direction
\* of travel less 90
TurningSprite_update(sp) ==
    [update(sp) EXCEPT !.angle = atan2_degrees(sp.change_y, sp.change_x) - 90]

\* sprite.change_x = ..., sprite.change_y = ..., sprite.change_angle = ...:
\* the assignments to the attributes
Sprite_set_change(s, change_x, change_y, change_angle) ==
    /\ sprites[s].init
    /\ sprites' = [sprites EXCEPT ![s].change_x = change_x,
                                  ![s].change_y = change_y,
                                  ![s].change_angle = change_angle]
    /\ err' = "none"
    /\ sprite_list' = sprite_list
    /\ last' = Call("change", <<s, change_x, change_y, change_angle>>, 0)

----------------------------------------------------------------------------
(* Geometry *)

\* cos and sin of an angle in degrees that is a multiple of 90
Cos90(angle) ==
    CASE angle % 360 = 0 -> 1
      [] angle % 360 = 90 -> 0
      [] angle % 360 = 180 -> -1
      [] angle % 360 = 270 -> 0

Sin90(angle) ==
    CASE angle % 360 = 0 -> 0
      [] angle % 360 = 90 -> 1
      [] angle % 360 = 180 -> 0
      [] angle % 360 = 270 -> -1

\* geometry.rotate(x, y, cx, cy, angle): the point (x, y) turned about the
\* pivot (cx, cy) by angle degrees, counter-clockwise
rotate(x, y, cx, cy, angle) ==
    LET temp_x == x - cx
        temp_y == y - cy
        rotated_x == temp_x * Cos90(angle) - temp_y * Sin90(angle)
        rotated_y == temp_x * Sin90(angle) + temp_y * Cos90(angle)
    IN  <<rotated_x + cx, rotated_y + cy>>

\* Sprite.get_points(): the four corners, each turned about the center
get_points(sp) ==
    << rotate(sp.center_x - sp.width \div 2, sp.center_y - sp.height \div 2,
              sp.center_x, sp.center_y, sp.angle),
       rotate(sp.center_x + sp.width \div 2, sp.center_y - sp.height \div 2,
              sp.center_x, sp.center_y, sp.angle),
       rotate(sp.center_x + sp.width \div 2, sp.center_y + sp.height \div 2,
              sp.center_x, sp.center_y, sp.angle),
       rotate(sp.center_x - sp.width \div 2, sp.center_y + sp.height \div 2,
              sp.center_x, sp.center_y, sp.angle) >>

\* min and max of four numbers
Min4(a, b, c, d) == CHOOSE m \in {a, b, c, d} : \A v \in {a, b, c, d} : m <= v
Max4(a, b, c, d) == CHOOSE m \in {a, b, c, d} : \A v \in {a, b, c, d} : m >= v

\* the getters of the properties bottom, top, left, right
_get_bottom(sp) ==
    LET points == get_points(sp)
    IN  Min4(points[1][2], points[2][2], points[3][2], points[4][2])

_get_top(sp) ==
    LET points == get_points(sp)
    IN  Max4(points[1][2], points[2][2], points[3][2], points[4][2])

_get_left(sp) ==
    LET points == get_points(sp)
    IN  Min4(points[1][1], points[2][1], points[3][1], points[4][1])

_get_right(sp) ==
    LET points == get_points(sp)
    IN  Max4(points[1][1], points[2][1], points[3][1], points[4][1])

\* a left setter that moves the sprite along the other axis
_set_left_other_axis(sp, amount) ==
    LET points == get_points(sp)
        leftmost == Min4(points[1][1], points[2][1], points[3][1], points[4][1])
        diff == amount - leftmost
    IN  [sp EXCEPT !.center_y = @ + diff]

\* a bottom setter that adds the difference instead of subtracting it
_set_bottom_wrong_sign(sp, amount) ==
    LET points == get_points(sp)
        lowest == Min4(points[1][2], points[2][2], points[3][2], points[4][2])
        diff == lowest - amount
    IN  [sp EXCEPT !.center_y = @ + diff]

\* the setters of the properties bottom, top, left, right
_set_bottom(sp, amount) ==
    LET points == get_points(sp)
        lowest == Min4(points[1][2], points[2][2], points[3][2], points[4][2])
        diff == lowest - amount
    IN  [sp EXCEPT !.center_y = @ - diff]

_set_top(sp, amount) ==
    LET points == get_points(sp)
        highest == Max4(points[1][2], points[2][2], points[3][2], points[4][2])
        diff == highest - amount
    IN  [sp EXCEPT !.center_y = @ - diff]

_set_left(sp, amount) ==
    LET points == get_points(sp)
        leftmost == Min4(points[1][1], points[2][1], points[3][1], points[4][1])
        diff == amount - leftmost
    IN  [sp EXCEPT !.center_x = @ + diff]

_set_right(sp, amount) ==
    LET points == get_points(sp)
        rightmost == Max4(points[1][1], points[2][1], points[3][1], points[4][1])
        diff == rightmost - amount
    IN  [sp EXCEPT !.center_x = @ - diff]

\* sprite.bottom = amount, and so on: the assignment through the property
Sprite_set_bottom(s, amount) ==
    /\ sprites[s].init
    /\ sprites' = [sprites EXCEPT ![s] = _set_bottom(@, amount)]
    /\ err' = "none"
    /\ sprite_list' = sprite_list
    /\ last' = Call("bottom", <<s, amount>>, 0)

Sprite_set_top(s, amount) ==
    /\ sprites[s].init
    /\ sprites' = [sprites EXCEPT ![s] = _set_top(@, amount)]
    /\ err' = "none"
    /\ sprite_list' = sprite_list
    /\ last' = Call("top", <<s, amount>>, 0)

Sprite_set_left(s, amount) ==
    /\ sprites[s].init
    /\ sprites' = [sprites EXCEPT ![s] = _set_left(@, amount)]
    /\ err' = "none"
    /\ sprite_list' = sprite_list
    /\ last' = Call("left", <<s, amount>>, 0)

Sprite_set_right(s, amount) ==
    /\ sprites[s].init
    /\ sprites' = [sprites EXCEPT ![s] = _set_right(@, amount)]
    /\ err' = "none"
    /\ sprite_list' = sprite_list
    /\ last' = Call("right", <<s, amount>>, 0)

\* sprite.angle = angle, the assignment to the attribute
Sprite_set_angle(s, angle) ==
    /\ sprites[s].init
    /\ sprites' = [sprites EXCEPT ![s].angle = angle]
    /\ err' = "none"
    /\ sprite_list' = sprite_list
    /\ last' = Call("angle", <<s, angle>>, 0)

----------------------------------------------------------------------------
(* Sprite.set_position *)

PositionChoices == {<<0, 0>>, <<3, -4>>}

set_position(sp, center_x, center_y) ==
    [sp EXCEPT !.center_x = center_x, !.center_y = center_y]

Sprite_set_position(s, center_x, center_y) ==
    /\ sprites[s].init
    /\ sprites' = [sprites EXCEPT ![s] = set_position(@, center_x, center_y)]
    /\ err' = "none"
    /\ sprite_list' = sprite_list
    /\ last' = Call("set_position", <<s, center_x, center_y>>, 0)

----------------------------------------------------------------------------
(* Sprite.__init__ with its arguments *)

\* the image loader, load_texture(filename, x, y, width, height): it fails
\* on a file it cannot read; width = height = 0 selects the whole image, any
\* other width and height the region of that size
FileNames == {"None", "ship.png", "missing.png"}
ImageOf(filename) == Texture(4, 2)

load_texture(filename, x, y, width, height) ==
    IF filename = "missing.png"
    THEN [err |-> "IOError", texture |-> NoTexture]
    ELSE IF width = 0 /\ height = 0
         THEN [err |-> "none", texture |-> ImageOf(filename)]
         ELSE [err |-> "none", texture |-> Texture(width, height)]

\* a validation that lets a zero height pass beside a non-zero width
init_error_no_height_check(width, height) ==
    IF width < 0 THEN "SystemError"
    ELSE IF height < 0 THEN "SystemError"
    ELSE IF width = 0 /\ height # 0 THEN "SystemError"
    ELSE "none"

\* the four checks that open __init__ (lines 91-101)
init_error(width, height) ==
    IF width < 0 THEN "SystemError"
    ELSE IF height < 0 THEN "SystemError"
    ELSE IF width = 0 /\ height # 0 THEN "SystemError"
    ELSE IF height = 0 /\ width # 0 THEN "SystemError"
    ELSE "none"

\* Sprite.__init__(filename, scale, x, y, width, height): the object built
\* and the error raised; a raise leaves an object with no attribute
init(filename, scale, x, y, width, height) ==
    IF init_error(width, height) # "none"
    THEN [err |-> init_error(width, height), sprite |-> Unbuilt]
    ELSE IF filename # "None"
    THEN LET r == load_texture(filename, x, y, width, height)
         IN  IF r.err # "none"
             THEN [err |-> r.err, sprite |-> Unbuilt]
             ELSE [err |-> "none",
                   sprite |-> [Sprite_fresh(scale) EXCEPT
                                  !.texture = r.texture,
                                  !.textures = <<r.texture>>,
                                  !.width = r.texture.width * scale,
                                  !.height = r.texture.height * scale]]
    ELSE [err |-> "none", sprite |-> Sprite_fresh(scale)]

Sprite_init(s, filename, scale, x, y, width, height) ==
    /\ ~sprites[s].init
    /\ sprites' = [sprites EXCEPT
                      ![s] = init(filename, scale, x, y, width, height).sprite]
    /\ err' = init(filename, scale, x, y, width, height).err
    /\ sprite_list' = sprite_list
    /\ last' = Call("init", <<s, filename, scale, x, y, width, height>>, 0)

----------------------------------------------------------------------------
(* Textures of a sprite *)

\* Sprite.append_texture(texture): no check of what is appended
Sprite_append_texture(s, texture) ==
    /\ sprites[s].init
    /\ Len(sprites[s].textures) < MaxFrames
    /\ sprites' = [sprites EXCEPT ![s].textures = Append(@, texture)]
    /\ err' = "none"
    /\ sprite_list' = sprite_list
    /\ last' = Call("append_texture", <<s, texture>>, 0)

\* Sprite._set_texture(texture), the setter of the property `texture`
set_texture_property(sp, texture) ==
    IF texture.kind = "Texture"
    THEN [err |-> "none", sprite |-> [sp EXCEPT !.texture = texture]]
    ELSE [err |-> "SystemError", sprite |-> sp]

\* seq[i] of Python on a list: i counts from 0, a negative i counts from the
\* end, and an i outside -len .. len-1 raises IndexError
IndexOk(seq, i) == -Len(seq) <= i /\ i < Len(seq)
Item(seq, i) == IF i >= 0 THEN seq[i + 1] ELSE seq[Len(seq) + i + 1]

\* Sprite.set_texture(texture_no)
set_texture(sp, texture_no) ==
    IF ~IndexOk(sp.textures, texture_no)
    THEN [err |-> "IndexError", sprite |-> sp]
    ELSE LET r == set_texture_property(sp, Item(sp.textures, texture_no))
         IN  IF r.err # "none"
             THEN r
             ELSE [err |-> "none",
                   sprite |-> [r.sprite EXCEPT
                       !.cur_texture_index = texture_no,
                       !.width = Item(sp.textures, texture_no).width * sp.scale,
                       !.height = Item(sp.textures, texture_no).height * sp.scale]]

Sprite_set_texture(s, texture_no) ==
    /\ sprites[s].init
    /\ sprites' = [sprites EXCEPT ![s] = set_texture(@, texture_no).sprite]
    /\ err' = set_texture(sprites[s], texture_no).err
    /\ sprite_list' = sprite_list
    /\ last' = Call("set_texture", <<s, texture_no>>, 0)

\* sprite.texture = value, the assignment through the property
Sprite_texture_assign(s, value) ==
    /\ sprites[s].init
    /\ sprites' = [sprites EXCEPT ![s] = set_texture_property(@, value).sprite]
    /\ err' = set_texture_property(sprites[s], value).err
    /\ sprite_list' = sprite_list
    /\ last' = Call("texture", <<s, value>>, 0)

----------------------------------------------------------------------------
(* One sprite, from its construction on, and its frames *)

\* the sprite the texture and geometry specifications build and act on
Built == {"s1"}

ScaleChoices == {-1, 0, 1, 2}
SizeChoices == {-2, 0, 2, 4}
TextureChoices == {Texture(2, 2), Texture(2, 6), NotATexture}
IndexChoices == (-(MaxFrames + 1)) .. MaxFrames

InitUnbuilt ==
    /\ sprite_list = [l \in ListIds |-> <<>>]
    /\ sprites = [s \in SpriteIds |-> Unbuilt]
    /\ err = "none"
    /\ last = NoCall

NextTexture ==
    \/ \E s \in Built, f \in FileNames, scale \in ScaleChoices,
          w \in SizeChoices, h \in SizeChoices :
           Sprite_init(s, f, scale, 0, 0, w, h)
    \/ \E s \in Built, tex \in TextureChoices : Sprite_append_texture(s, tex)
    \/ \E s \in Built, i \in IndexChoices : Sprite_set_texture(s, i)
    \/ \E s \in Built, tex \in TextureChoices : Sprite_texture_assign(s, tex)

SpecTexture == InitUnbuilt /\ [][NextTexture]_vars

----------------------------------------------------------------------------
(* One sprite, from its construction on, moved and turned *)

GeometryFiles == {"None", "ship.png"}
GeometryScales == {-1, 1, 2}
GeometrySizes == {0, 2}
AngleChoices == {0, 90, 180, 270}
EdgeChoices == {-3, 2}

NextGeometry ==
    \/ \E s \in Built, f \in GeometryFiles, scale \in GeometryScales,
          w \in GeometrySizes, h \in GeometrySizes :
           Sprite_init(s, f, scale, 0, 0, w, h)
    \/ \E s \in Built, p \in PositionChoices :
           Sprite_set_position(s, p[1], p[2])
    \/ \E s \in Built, a \in AngleChoices : Sprite_set_angle(s, a)
    \/ \E s \in Built, amount \in EdgeChoices : Sprite_set_bottom(s, amount)
    \/ \E s \in Built, amount \in EdgeChoices : Sprite_set_top(s, amount)
    \/ \E s \in Built, amount \in EdgeChoices : Sprite_set_left(s, amount)
    \/ \E s \in Built, amount \in EdgeChoices : Sprite_set_right(s, amount)

SpecGeometry == InitUnbuilt /\ [][NextGeometry]_vars

----------------------------------------------------------------------------
(* The collection protocol: two lists, two sprites built by Sprite(), and   *)
(* an object that is no sprite                                              *)

Init ==
    /\ sprite_list = [l \in ListIds |-> <<>>]
    /\ sprites = [s \in SpriteIds |-> Sprite_fresh(0)]
    /\ err = "none"
    /\ last = NoCall

Next ==
    \/ \E l \in ListIds, item \in Items : SpriteList_append(l, item)
    \/ \E l \in ListIds, item \in Items : SpriteList_remove(l, item)
    \/ \E l \in ListIds : SpriteList_pop(l)
    \/ \E s \in SpriteIds : Sprite_kill(s)

Spec == Init /\ [][Next]_vars

----------------------------------------------------------------------------
(* PlatformerSpriteSheetSprite, the directional sprite.  Its velocities are *)
(* held in thousandths, so that an integer v of change_x, change_y, speed   *)
(* or jump_speed stands for v / 1000 and the speed 0.003 is 3.              *)

\* an attribute that no statement has assigned yet: reading it raises
\* AttributeError
NoAttribute(val) == [set |-> FALSE, val |-> val]
\* an attribute that holds val
Attribute(val) == [set |-> TRUE, val |-> val]

\* no walk selection chose the active frame
NoPos == [of |-> "none", at |-> 0]

\* PlatformerSpriteSheetSprite.__init__: the fields of Sprite() and its own.
\* left_textures, right_textures, jump_left_textures, jump_right_textures and
\* jump_speed are read by the methods and assigned by no statement of
\* __init__.  pos is the local variable pos of the walk selection that chose
\* the active frame, with the list it indexes.
PlatformerSpriteSheetSprite_fresh ==
    [Sprite_fresh(0) EXCEPT !.class = "PlatformerSpriteSheetSprite"] @@
    [last_change_x |-> 0,
     facing |-> "right",
     left_walk_textures |-> <<>>,
     right_walk_textures |-> <<>>,
     up_walk_textures |-> <<>>,
     down_walk_textures |-> <<>>,
     jump_textures |-> <<>>,
     left_stand_textures |-> Attribute(<<>>),
     right_stand_textures |-> Attribute(<<>>),
     up_stand_textures |-> <<>>,
     down_stand_textures |-> <<>>,
     texture_change_distance |-> 0,
     speed |-> 3,
     left_textures |-> NoAttribute(<<>>),
     right_textures |-> NoAttribute(<<>>),
     jump_left_textures |-> NoAttribute(<<>>),
     jump_right_textures |-> NoAttribute(<<>>),
     jump_speed |-> NoAttribute(0),
     pos |-> NoPos]

\* list.index(x) of Python, for an x that the list holds: the position,
\* counted from 0, of the first entry equal to x
index(seq, x) ==
    (CHOOSE i \in DOMAIN seq :
         seq[i] = x /\ \A j \in 1 .. (i - 1) : seq[j] # x) - 1

\* the walk branch of update, lines 367-375 (and 380-388), on the list that
\* the attribute textures holds
walk_select(sp, textures, of) ==
    IF ~textures.set
    THEN [err |-> "AttributeError", sprite |-> sp]
    ELSE LET list == textures.val
             next == IF Contains(list, sp.cur_texture_index)
                     THEN index(list, sp.cur_texture_index) + 1
                     ELSE 0
             pos == IF next >= Len(list) THEN 0 ELSE next
         IN  IF list = <<>>
             THEN [err |-> "IndexError", sprite |-> sp]
             ELSE LET r == set_texture(sp, list[pos + 1])
                  IN  IF r.err # "none"
                      THEN r
                      ELSE [err |-> "none",
                            sprite |-> [r.sprite EXCEPT
                                !.last_change_x = sp.center_x,
                                !.pos = [of |-> of, at |-> pos]]]

\* self.set_texture(textures[0]), the stand and jump branches of update
first_select(sp, textures) ==
    IF ~textures.set
    THEN [err |-> "AttributeError", sprite |-> sp]
    ELSE IF textures.val = <<>>
    THEN [err |-> "IndexError", sprite |-> sp]
    ELSE LET r == set_texture(sp, textures.val[1])
         IN  IF r.err # "none"
             THEN r
             ELSE [err |-> "none", sprite |-> [r.sprite EXCEPT !.pos = NoPos]]

\* the body of PlatformerSpriteSheetSprite.update
select_texture(sp) ==
    IF sp.change_y = 0
    THEN IF sp.change_x < 0
         THEN IF Abs(sp.last_change_x - sp.center_x) > sp.texture_change_distance
              THEN walk_select(sp, sp.left_textures, "left")
              ELSE [err |-> "none", sprite |-> sp]
         ELSE IF sp.change_x > 0
         THEN IF Abs(sp.last_change_x - sp.center_x) > sp.texture_change_distance
              THEN walk_select(sp, sp.right_textures, "right")
              ELSE [err |-> "none", sprite |-> sp]
         ELSE IF sp.facing = "right"
         THEN first_select(sp, sp.right_stand_textures)
         ELSE IF sp.facing = "left"
         THEN first_select(sp, sp.left_stand_textures)
         ELSE [err |-> "none", sprite |-> sp]
    ELSE IF sp.facing = "right"
         THEN first_select(sp, sp.jump_right_textures)
         ELSE IF sp.facing = "left"
         THEN first_select(sp, sp.jump_left_textures)
         ELSE [err |-> "none", sprite |-> sp]

\* an update that calls Sprite.update first, as TurningSprite.update does
platformer_update_integrates(sp) == select_texture(update(sp))

\* PlatformerSpriteSheetSprite.update
platformer_update(sp) == select_texture(sp)

\* sprite.update(), the method of the sprite's class
sprite_update(sp) ==
    CASE sp.class = "Sprite" -> [err |-> "none", sprite |-> update(sp)]
      [] sp.class = "TurningSprite" ->
             [err |-> "none", sprite |-> TurningSprite_update(sp)]
      [] sp.class = "PlatformerSpriteSheetSprite" -> platformer_update(sp)

\* the loop of SpriteList.update() over the entries `todo`, in order:
\* sprite.update() on each; an entry that is no sprite has no update and
\* the call raises AttributeError there; an update that raises ends the
\* call, the entries after it not reached
RECURSIVE update_loop(_, _)
update_loop(todo, sps) ==
    IF todo = <<>>
    THEN [sprites |-> sps, err |-> "none"]
    ELSE IF Head(todo) \notin SpriteIds
    THEN [sprites |-> sps, err |-> "AttributeError"]
    ELSE LET r == sprite_update(sps[Head(todo)])
         IN  IF r.err # "none"
             THEN [sprites |-> [sps EXCEPT ![Head(todo)] = r.sprite],
                   err |-> r.err]
             ELSE update_loop(Tail(todo),
                              [sps EXCEPT ![Head(todo)] = r.sprite])

SpriteList_update(l) ==
    /\ \A s \in SpriteIds :
           Abs(sprites[s].center_x) < MaxCoord /\ Abs(sprites[s].center_y) < MaxCoord
    /\ sprites' = update_loop(sprite_list[l], sprites).sprites
    /\ err' = update_loop(sprite_list[l], sprites).err
    /\ sprite_list' = sprite_list
    /\ last' = Call("update_list", <<l>>, 0)

\* sprite.update() called on one sprite of any of the three classes
Sprite_update(s) ==
    /\ Abs(sprites[s].center_x) < MaxCoord
    /\ Abs(sprites[s].center_y) < MaxCoord
    /\ sprites' = [sprites EXCEPT ![s] = sprite_update(@).sprite]
    /\ err' = sprite_update(sprites[s]).err
    /\ sprite_list' = sprite_list
    /\ last' = Call("update_sprite", <<s>>, 0)

Platformer_update(s) ==
    /\ sprites' = [sprites EXCEPT ![s] = platformer_update(@).sprite]
    /\ err' = platformer_update(sprites[s]).err
    /\ sprite_list' = sprite_list
    /\ last' = Call("update", <<s>>, 0)

\* the six setters of the frame index lists
Platformer_set_left_walk_textures(s, texture_index_list) ==
    /\ sprites' = [sprites EXCEPT
           ![s].left_textures = Attribute(texture_index_list),
           ![s].pos = NoPos]
    /\ err' = "none"
    /\ sprite_list' = sprite_list
    /\ last' = Call("set_left_walk_textures", <<s, texture_index_list>>, 0)

Platformer_set_right_walk_textures(s, texture_index_list) ==
    /\ sprites' = [sprites EXCEPT
           ![s].right_textures = Attribute(texture_index_list),
           ![s].pos = NoPos]
    /\ err' = "none"
    /\ sprite_list' = sprite_list
    /\ last' = Call("set_right_walk_textures", <<s, texture_index_list>>, 0)

Platformer_set_left_jump_textures(s, texture_index_list) ==
    /\ sprites' = [sprites EXCEPT
           ![s].jump_left_textures = Attribute(texture_index_list)]
    /\ err' = "none"
    /\ sprite_list' = sprite_list
    /\ last' = Call("set_left_jump_textures", <<s, texture_index_list>>, 0)

Platformer_set_right_jump_textures(s, texture_index_list) ==
    /\ sprites' = [sprites EXCEPT
           ![s].jump_right_textures = Attribute(texture_index_list)]
    /\ err' = "none"
    /\ sprite_list' = sprite_list
    /\ last' = Call("set_right_jump_textures", <<s, texture_index_list>>, 0)

Platformer_set_left_stand_textures(s, texture_index_list) ==
    /\ sprites' = [sprites EXCEPT
           ![s].left_stand_textures = Attribute(texture_index_list)]
    /\ err' = "none"
    /\ sprite_list' = sprite_list
    /\ last' = Call("set_left_stand_textures", <<s, texture_index_list>>, 0)

Platformer_set_right_stand_textures(s, texture_index_list) ==
    /\ sprites' = [sprites EXCEPT
           ![s].right_stand_textures = Attribute(texture_index_list)]
    /\ err' = "none"
    /\ sprite_list' = sprite_list
    /\ last' = Call("set_right_stand_textures", <<s, texture_index_list>>, 0)

\* the movement commands
go_left(sp) == [sp EXCEPT !.change_x = -sp.speed]

stop_left(sp) == IF sp.change_x < 0 THEN [sp EXCEPT !.change_x = 0] ELSE sp

go_right(sp) == [sp EXCEPT !.change_x = sp.speed]

\* a stop_right without its test of change_x
stop_right_unguarded(sp) == [sp EXCEPT !.change_x = 0]

stop_right(sp) == IF sp.change_x > 0 THEN [sp EXCEPT !.change_x = 0] ELSE sp

face_left(sp) == IF sp.facing # "left" THEN [sp EXCEPT !.facing = "left"] ELSE sp

face_right(sp) ==
    IF sp.facing # "right" THEN [sp EXCEPT !.facing = "right"] ELSE sp

\* jump reads jump_speed
jump(sp) ==
    IF ~sp.jump_speed.set
    THEN [err |-> "AttributeError", sprite |-> sp]
    ELSE [err |-> "none", sprite |-> [sp EXCEPT !.change_y = sp.jump_speed.val]]

Platformer_go_left(s) ==
    /\ sprites' = [sprites EXCEPT ![s] = go_left(@)]
    /\ err' = "none"
    /\ sprite_list' = sprite_list
    /\ last' = Call("go_left", <<s>>, 0)

Platformer_stop_left(s) ==
    /\ sprites' = [sprites EXCEPT ![s] = stop_left(@)]
    /\ err' = "none"
    /\ sprite_list' = sprite_list
    /\ last' = Call("stop_left", <<s>>, 0)

Platformer_go_right(s) ==
    /\ sprites' = [sprites EXCEPT ![s] = go_right(@)]
    /\ err' = "none"
    /\ sprite_list' = sprite_list
    /\ last' = Call("go_right", <<s>>, 0)

Platformer_stop_right(s) ==
    /\ sprites' = [sprites EXCEPT ![s] = stop_right(@)]
    /\ err' = "none"
    /\ sprite_list' = sprite_list
    /\ last' = Call("stop_right", <<s>>, 0)

Platformer_face_left(s) ==
    /\ sprites' = [sprites EXCEPT ![s] = face_left(@)]
    /\ err' = "none"
    /\ sprite_list' = sprite_list
    /\ last' = Call("face_left", <<s>>, 0)

Platformer_face_right(s) ==
    /\ sprites' = [sprites EXCEPT ![s] = face_right(@)]
    /\ err' = "none"
    /\ sprite_list' = sprite_list
    /\ last' = Call("face_right", <<s>>, 0)

Platformer_jump(s) ==
    /\ sprites' = [sprites EXCEPT ![s] = jump(@).sprite]
    /\ err' = jump(sprites[s]).err
    /\ sprite_list' = sprite_list
    /\ last' = Call("jump", <<s>>, 0)

\* sprite.jump_speed = jump_speed, the assignment of the attribute
Platformer_set_jump_speed(s, jump_speed) ==
    /\ sprites' = [sprites EXCEPT ![s].jump_speed = Attribute(jump_speed)]
    /\ err' = "none"
    /\ sprite_list' = sprite_list
    /\ last' = Call("jump_speed", <<s, jump_speed>>, 0)

\* the state after PlatformerSpriteSheetSprite() for every sprite
InitPlatformer ==
    /\ sprite_list = [l \in ListIds |-> <<>>]
    /\ sprites = [s \in SpriteIds |-> PlatformerSpriteSheetSprite_fresh]
    /\ err = "none"
    /\ last = NoCall

----------------------------------------------------------------------------
(* One list, filled with sprites of the three classes and updated *)

UpdatedLists == {"L1"}
UpdateChanges == {<<0, 0, 0>>, <<1, -1, 90>>}
UpdateClasses ==
    {Sprite_fresh(0), TurningSprite_fresh, PlatformerSpriteSheetSprite_fresh}

\* two sprites, each built by the constructor of one of the three classes
InitUpdate ==
    /\ sprite_list = [l \in ListIds |-> <<>>]
    /\ sprites \in [SpriteIds -> UpdateClasses]
    /\ err = "none"
    /\ last = NoCall

NextUpdate ==
    \/ \E l \in UpdatedLists, item \in Items : SpriteList_append(l, item)
    \/ \E s \in SpriteIds, c \in UpdateChanges :
           Sprite_set_change(s, c[1], c[2], c[3])
    \/ \E l \in UpdatedLists : SpriteList_update(l)
    \/ \E s \in SpriteIds : Sprite_update(s)

SpecUpdate == InitUpdate /\ [][NextUpdate]_vars

----------------------------------------------------------------------------
(* One directional sprite that walks: its frames, its walk lists, its       *)
(* horizontal velocity and its position                                     *)

WalkFrames == {Texture(2, 2)}
LeftWalkChoices == {<<0, 1>>, <<0, 1, 0>>}
RightWalkChoices == {<<1, 0>>}
WalkPositions == {<<0, 0>>, <<1, 0>>}

NextWalk ==
    \/ \E s \in Built, t \in WalkFrames : Sprite_append_texture(s, t)
    \/ \E s \in Built, c \in LeftWalkChoices :
           Platformer_set_left_walk_textures(s, c)
    \/ \E s \in Built, c \in RightWalkChoices :
           Platformer_set_right_walk_textures(s, c)
    \/ \E s \in Built : Platformer_go_left(s)
    \/ \E s \in Built : Platformer_go_right(s)
    \/ \E s \in Built, p \in WalkPositions : Sprite_set_position(s, p[1], p[2])
    \/ \E s \in Built : Platformer_update(s)

SpecWalk == InitPlatformer /\ [][NextWalk]_vars

----------------------------------------------------------------------------
(* One directional sprite under its configuration setters, its commands,    *)
(* assignments of its velocity attributes, and update                       *)

StandJumpFrames == {Texture(2, 6)}
LeftListChoices == {<<1>>}
RightListChoices == {<<0>>}
VelocityChoices == {<<5, 2, 90>>}
JumpSpeedChoices == {2}

NextDirectional ==
    \/ \E s \in Built, t \in StandJumpFrames : Sprite_append_texture(s, t)
    \/ \E s \in Built, c \in LeftListChoices :
           Platformer_set_left_walk_textures(s, c)
    \/ \E s \in Built, c \in RightListChoices :
           Platformer_set_right_walk_textures(s, c)
    \/ \E s \in Built, c \in LeftListChoices :
           Platformer_set_left_jump_textures(s, c)
    \/ \E s \in Built, c \in RightListChoices :
           Platformer_set_right_jump_textures(s, c)
    \/ \E s \in Built, c \in LeftListChoices :
           Platformer_set_left_stand_textures(s, c)
    \/ \E s \in Built, c \in RightListChoices :
           Platformer_set_right_stand_textures(s, c)
    \/ \E s \in Built : Platformer_go_left(s)
    \/ \E s \in Built : Platformer_stop_left(s)
    \/ \E s \in Built : Platformer_go_right(s)
    \/ \E s \in Built : Platformer_stop_right(s)
    \/ \E s \in Built : Platformer_face_left(s)
    \/ \E s \in Built : Platformer_face_right(s)
    \/ \E s \in Built : Platformer_jump(s)
    \/ \E s \in Built, v \in JumpSpeedChoices : Platformer_set_jump_speed(s, v)
    \/ \E s \in Built, c \in VelocityChoices :
           Sprite_set_change(s, c[1], c[2], c[3])
    \/ \E s \in Built : Platformer_update(s)

SpecDirectional == InitPlatformer /\ [][NextDirectional]_vars

----------------------------------------------------------------------------
(* The claims about the collection protocol, checked under Spec *)

\* C1: after kill() of a sprite returns, no SpriteList holds that sprite,
\* whatever appends (to several lists, or several times to one list),
\* removes and pops came before.
C1_KillLeavesNoMembership ==
    last.op = "kill" =>
        \A l \in ListIds : ~Contains(sprite_list[l], last.args[1])

\* a kill has just deleted two entries: the sprite had been appended twice
\* (to two lists, or twice to one) and was still there both times
C1_Witness == last.op = "kill" /\ last.n = 2

\* C2: a kill() that directly follows a kill() of the same sprite raises
\* nothing and changes no SpriteList and no field of any sprite.
C2_KillIdempotent ==
    [][(last'.op = "kill" /\ last'.rep) =>
           /\ err' = "none"
           /\ sprite_list' = sprite_list
           /\ sprites' = sprites]_vars

\* a second kill has run right after a first one that deleted an entry
C2_Witness ==
    last.op = "kill" /\ last.rep /\ last.rep_n >= 1 /\ last.n = 0

\* C3: a sprite that occurs in a SpriteList's sequence has that list among
\* its back-references.
C3_MemberIsRegistered ==
    \A l \in ListIds, s \in SpriteIds :
        Contains(sprite_list[l], s) => Contains(sprites[s].sprite_lists, l)

\* a sprite is in both lists after another entry was popped or removed
C3_Witness ==
    /\ last.op \in {"pop", "remove"} /\ last.n = 1
    /\ \E s \in SpriteIds : \A l \in ListIds : Contains(sprite_list[l], s)

\* C4: remove(s) of an item the list does not hold raises ValueError, pop()
\* of an empty list raises IndexError, and either call leaves every list's
\* sequence and every sprite's fields (its back-references among them) as
\* they were.
C4_FailedRemovePopChangeNothing ==
    [][/\ (last'.op = "remove"
            /\ ~Contains(sprite_list[last'.args[1]], last'.args[2])) =>
               (err' = "ValueError" /\ sprite_list' = sprite_list
                                    /\ sprites' = sprites)
       /\ (last'.op = "pop" /\ sprite_list[last'.args[1]] = <<>>) =>
               (err' = "IndexError" /\ sprite_list' = sprite_list
                                    /\ sprites' = sprites)]_vars

\* a remove of an absent sprite has failed on a list that holds other
\* entries, while the other list is empty (where pop fails)
C4_Witness ==
    /\ last.op = "remove" /\ err = "ValueError"
    /\ sprite_list[last.args[1]] # <<>>
    /\ \E l \in ListIds : sprite_list[l] = <<>>

\* C5: an append that raises leaves the list's sequence as it was before
\* the call.
C5_FailedAppendChangesNothing ==
    [][(last'.op = "append" /\ err' # "none") =>
           sprite_list' = sprite_list]_vars

\* C11: a SpriteList keeps insertion order: append puts the item at the
\* end, remove(s) deletes the first entry equal to s and no other, pop
\* deletes the last entry and no other, kill deletes the entries equal to
\* the killed sprite and no other; the entries that stay keep their order,
\* a call on one list leaves the other lists alone, and len(list) is the
\* number of entries iteration yields.
C11_OrderPreserved ==
    [][/\ last'.op \in {"append", "remove", "pop"} =>
              LET l == last'.args[1]
                  old == sprite_list[l]
                  new == sprite_list'[l]
              IN  /\ \A l2 \in ListIds \ {l} : sprite_list'[l2] = sprite_list[l2]
                  /\ last'.op = "append" => new = old \o <<last'.args[2]>>
                  /\ (last'.op = "remove" /\ Contains(old, last'.args[2])) =>
                         \E k \in DOMAIN old :
                             /\ old[k] = last'.args[2]
                             /\ \A j \in 1..(k - 1) : old[j] # last'.args[2]
                             /\ new = SubSeq(old, 1, k - 1)
                                         \o SubSeq(old, k + 1, Len(old))
                  /\ (last'.op = "pop" /\ old # <<>>) =>
                         new = SubSeq(old, 1, Len(old) - 1)
       /\ last'.op = "kill" =>
              \A l \in ListIds :
                  sprite_list'[l] =
                      SelectSeq(sprite_list[l], LAMBDA x : x # last'.args[1])
       /\ \A l \in ListIds : SpriteList_len(l)' = Len(SpriteList_iter(l)')]_vars

\* a remove has deleted the first of two entries equal to its argument and
\* left the entry between them and the second one
C11_Witness ==
    /\ last.op = "remove" /\ last.n = 1
    /\ Len(sprite_list[last.args[1]]) = 2
    /\ sprite_list[last.args[1]][2] = last.args[2]
    /\ sprite_list[last.args[1]][1] # last.args[2]

\* C13 (checked under SpecUpdate): SpriteList.update() changes no list, and
\* runs update() once on every entry: a sprite of the base class Sprite that
\* occurs once in the list has center_x, center_y and angle advanced by
\* exactly change_x, change_y and change_angle, and no other field changed.
C13_ListUpdateAdvancesEachOnce ==
    [][last'.op = "update_list" =>
           /\ sprite_list' = sprite_list
           /\ \A s \in SpriteIds :
                  (/\ sprites[s].class = "Sprite"
                   /\ Count(sprite_list[last'.args[1]], s) = 1) =>
                      sprites'[s] =
                          [sprites[s] EXCEPT
                              !.center_x = @ + sprites[s].change_x,
                              !.center_y = @ + sprites[s].change_y,
                              !.angle = @ + sprites[s].change_angle]]_vars

\* C14: kill() of a sprite changes no field of any sprite, deletes from
\* every list the entries equal to the sprite and leaves the other entries
\* in their order; a sprite appended exactly once to a list L, and still
\* there, leaves L shorter by exactly 1.
C14_KillOnlySeversMembership ==
    [][last'.op = "kill" =>
           LET s == last'.args[1]
           IN  /\ sprites' = sprites
               /\ \A l \in ListIds :
                      /\ SelectSeq(sprite_list'[l], LAMBDA x : x # s)
                             = SelectSeq(sprite_list[l], LAMBDA x : x # s)
                      /\ (Count(sprites[s].sprite_lists, l) = 1
                          /\ Contains(sprite_list[l], s)) =>
                             Len(sprite_list'[l]) = Len(sprite_list[l]) - 1]_vars

\* a kill has deleted one entry and a list still holds two other entries
C14_Witness ==
    /\ last.op = "kill" /\ last.n = 1
    /\ Len(sprites[last.args[1]].sprite_lists) = 1
    /\ \E l \in ListIds :
           /\ Contains(sprites[last.args[1]].sprite_lists, l)
           /\ Len(sprite_list[l]) = 2

\* C19: the back-references of a sprite only grow: a step adds exactly one
\* occurrence of list L to s.sprite_lists when it is a successful
\* L.append(s), and no step deletes one; so L occurs in s.sprite_lists as
\* many times as L.append(s) succeeded, also when s is no longer in L.
C19_BackReferencesAppendOnly ==
    [][\A s \in SpriteIds, l \in ListIds :
           Count(sprites'[s].sprite_lists, l) =
               Count(sprites[s].sprite_lists, l)
               + (IF last'.op = "append" /\ err' = "none"
                     /\ last'.args[1] = l /\ last'.args[2] = s
                  THEN 1 ELSE 0)]_vars

\* a sprite appended twice to one list is in no list any more
C19_Witness ==
    \E s \in SpriteIds, l \in ListIds :
        /\ Count(sprites[s].sprite_lists, l) = 2
        /\ \A l2 \in ListIds : ~Contains(sprite_list[l2], s)
        /\ last.op \in {"remove", "pop", "kill"}

----------------------------------------------------------------------------
(* The claims about construction and frames, checked under SpecTexture *)

\* C6: set_texture(i) with i outside 0 .. frameCount-1 (a negative i, i =
\* frameCount, any i on a sprite with no frame) raises IndexError and leaves
\* the active texture, cur_texture_index, width and height as they were;
\* with i inside the range it returns and frame i is the active texture.
C6_SetTextureChecksIndex ==
    [][last'.op = "set_texture" =>
           LET s == last'.args[1]
               i == last'.args[2]
           IN  IF i < 0 \/ i >= Len(sprites[s].textures)
               THEN /\ err' = "IndexError"
                    /\ sprites'[s].texture = sprites[s].texture
                    /\ sprites'[s].cur_texture_index
                           = sprites[s].cur_texture_index
                    /\ sprites'[s].width = sprites[s].width
                    /\ sprites'[s].height = sprites[s].height
               ELSE /\ err' = "none"
                    /\ sprites'[s].texture = sprites[s].textures[i + 1]
                    /\ sprites'[s].cur_texture_index = i]_vars

\* C7: Sprite(...) raises its argument error (SystemError) exactly when
\* width < 0, or height < 0, or exactly one of width and height is zero, and
\* then no sprite is built; any other failure is the image loader's.  With
\* width = height = 0 and no file name it returns a sprite with no frame,
\* width = height = 0, center (0,0), angle 0, zero velocities, alpha 1.0
\* and no back-reference.
C7_ConstructionArguments ==
    last.op = "init" =>
        LET s == last.args[1]
            filename == last.args[2]
            width == last.args[6]
            height == last.args[7]
            bad == \/ width < 0
                   \/ height < 0
                   \/ (width = 0) # (height = 0)
        IN  /\ (err = "SystemError") <=> bad
            /\ (err # "none") <=> ~sprites[s].init
            /\ filename = "None" => (err # "none" <=> bad)
            /\ (width = 0 /\ height = 0 /\ filename = "None") =>
                   /\ err = "none"
                   /\ sprites[s].textures = <<>>
                   /\ sprites[s].width = 0 /\ sprites[s].height = 0
                   /\ sprites[s].center_x = 0 /\ sprites[s].center_y = 0
                   /\ sprites[s].angle = 0
                   /\ sprites[s].change_x = 0 /\ sprites[s].change_y = 0
                   /\ sprites[s].change_angle = 0
                   /\ sprites[s].alpha = 1
                   /\ sprites[s].sprite_lists = <<>>

\* a construction with a positive width and height 0 has been refused
C7_Witness ==
    /\ last.op = "init" /\ err = "SystemError"
    /\ last.args[6] > 0 /\ last.args[7] = 0

\* C15: a built sprite that has an active texture has it at
\* cur_texture_index of its frame sequence, and has width = the texture's
\* pixel width x scale and height = the texture's pixel height x scale.
C15_ActiveTextureConsistent ==
    \A s \in SpriteIds :
        (sprites[s].init /\ sprites[s].texture.kind = "Texture") =>
            /\ IndexOk(sprites[s].textures, sprites[s].cur_texture_index)
            /\ sprites[s].texture
                   = Item(sprites[s].textures, sprites[s].cur_texture_index)
            /\ sprites[s].width = sprites[s].texture.width * sprites[s].scale
            /\ sprites[s].height = sprites[s].texture.height * sprites[s].scale

\* C8: a built sprite's width and height are never negative, and are both
\* zero or both positive.
C8_SizeInvariant ==
    \A s \in SpriteIds :
        sprites[s].init =>
            /\ sprites[s].width >= 0
            /\ sprites[s].height >= 0
            /\ (sprites[s].width = 0) <=> (sprites[s].height = 0)

----------------------------------------------------------------------------
(* The claims about geometry, checked under SpecGeometry *)

\* C9: right after sprite.e = T, for e one of bottom, top, left, right,
\* reading sprite.e gives T, whatever the center, width, height and angle
\* (a multiple of 90 degrees) were; and a sprite at (0,0) of width = height
\* = 1 and angle 0 has bottom -0.5 and, after bottom = 1, center_y 1.5 and
\* bottom 1.0 (lengths in half units: 2, -1, 2, 3, 2).
C9_EdgeRoundTrip ==
    LET sp == sprites[last.args[1]]
    IN  /\ last.op = "bottom" => _get_bottom(sp) = last.args[2]
        /\ last.op = "top" => _get_top(sp) = last.args[2]
        /\ last.op = "left" => _get_left(sp) = last.args[2]
        /\ last.op = "right" => _get_right(sp) = last.args[2]
        /\ \A s \in Built :
               (/\ sprites[s].init
                /\ sprites[s].width = 2 /\ sprites[s].height = 2
                /\ sprites[s].angle = 0) =>
                   /\ (sprites[s].center_x = 0 /\ sprites[s].center_y = 0)
                          => _get_bottom(sprites[s]) = -1
                   /\ (last.op = "bottom" /\ last.args[2] = 2)
                          => (sprites[s].center_y = 3
                              /\ _get_bottom(sprites[s]) = 2)

\* the bottom of a sprite turned by 90 degrees, wider than high and away from
\* the origin, has just been set
C9_Witness ==
    /\ last.op = "bottom"
    /\ sprites[last.args[1]].angle = 90
    /\ sprites[last.args[1]].width = 8
    /\ sprites[last.args[1]].height = 4
    /\ sprites[last.args[1]].center_x = 3

\* C10: a sprite with angle 0 has the corner points (cx-w/2, cy-h/2),
\* (cx+w/2, cy-h/2), (cx+w/2, cy+h/2), (cx-w/2, cy+h/2), in this order, and
\* bottom = cy-h/2, top = cy+h/2, left = cx-w/2, right = cx+w/2, in every
\* state (after every change of center, width, height or angle).
C10_UnrotatedPointsAndEdges ==
    \A s \in Built :
        (sprites[s].init /\ sprites[s].angle = 0) =>
            LET sp == sprites[s]
                cx == sp.center_x
                cy == sp.center_y
                hw == sp.width \div 2
                hh == sp.height \div 2
            IN  /\ get_points(sp) = << <<cx - hw, cy - hh>>, <<cx + hw, cy - hh>>,
                                       <<cx + hw, cy + hh>>, <<cx - hw, cy + hh>> >>
                /\ _get_bottom(sp) = cy - hh
                /\ _get_top(sp) = cy + hh
                /\ _get_left(sp) = cx - hw
                /\ _get_right(sp) = cx + hw

\* C12: an edge setter moves the center along one axis and changes nothing
\* else: bottom and top give center_y - (edge - target), left gives
\* center_x + (target - left), right gives center_x - (right - target);
\* every other field of the sprite (width, height, angle, scale, the other
\* coordinate, the textures, the back-references) and every list stay.
C12_EdgeSettersTranslate ==
    [][last'.op \in {"bottom", "top", "left", "right"} =>
           LET s == last'.args[1]
               target == last'.args[2]
               sp == sprites[s]
           IN  /\ sprite_list' = sprite_list
               /\ \A s2 \in SpriteIds \ {s} : sprites'[s2] = sprites[s2]
               /\ last'.op = "bottom" => sprites'[s] =
                      [sp EXCEPT !.center_y = @ - (_get_bottom(sp) - target)]
               /\ last'.op = "top" => sprites'[s] =
                      [sp EXCEPT !.center_y = @ - (_get_top(sp) - target)]
               /\ last'.op = "left" => sprites'[s] =
                      [sp EXCEPT !.center_x = @ + (target - _get_left(sp))]
               /\ last'.op = "right" => sprites'[s] =
                      [sp EXCEPT !.center_x = @ - (_get_right(sp) - target)]]_vars

\* the left edge of a sprite turned by 270 degrees, wider than high, has been
\* set, and the sprite has been moved by it
C12_Witness ==
    /\ last.op = "left"
    /\ sprites[last.args[1]].angle = 270
    /\ sprites[last.args[1]].width = 4
    /\ sprites[last.args[1]].height = 2
    /\ sprites[last.args[1]].center_x = last.args[2] + 1
    /\ sprites[last.args[1]].center_y = -4

----------------------------------------------------------------------------
(* The claim about the walk cycle, checked under SpecWalk *)

\* every entry of the walk list names a frame of the sprite
ValidWalkList(sp, textures) ==
    /\ textures.set
    /\ textures.val # <<>>
    /\ \A i \in DOMAIN textures.val : IndexOk(sp.textures, textures.val[i])

\* the entry after position at of a list, the first one after the last
EntryAfter(list, at) == list[((at + 1) % Len(list)) + 1]

\* |center_x - last reference x| exceeds texture_change_distance
Qualifies(sp) ==
    Abs(sp.last_change_x - sp.center_x) > sp.texture_change_distance

\* C16: with change_y = 0 and change_x < 0, an update on which
\* |center_x - reference x| exceeds texture_change_distance makes the active
\* frame the entry after the current one in the left-walk list (the first
\* entry after the last) and records center_x as the reference; the same for
\* change_x > 0 and the right-walk list; an update on which the distance is
\* not exceeded changes neither the frame nor the reference.
C16_WalkCycle ==
    [][last'.op = "update" =>
           \A s \in Built :
               LET sp == sprites[s]
                   post == sprites'[s]
               IN  sp.change_y = 0 =>
                     /\ (/\ sp.change_x < 0
                         /\ Qualifies(sp)
                         /\ ValidWalkList(sp, sp.left_textures)
                         /\ sp.pos.of = "left") =>
                            /\ post.cur_texture_index
                                   = EntryAfter(sp.left_textures.val, sp.pos.at)
                            /\ post.last_change_x = sp.center_x
                     /\ (/\ sp.change_x > 0
                         /\ Qualifies(sp)
                         /\ ValidWalkList(sp, sp.right_textures)
                         /\ sp.pos.of = "right") =>
                            /\ post.cur_texture_index
                                   = EntryAfter(sp.right_textures.val, sp.pos.at)
                            /\ post.last_change_x = sp.center_x
                     /\ (sp.change_x # 0 /\ ~Qualifies(sp)) =>
                            /\ post.cur_texture_index = sp.cur_texture_index
                            /\ post.texture = sp.texture
                            /\ post.last_change_x = sp.last_change_x]_vars

----------------------------------------------------------------------------
(* The claims about the directional sprite, checked under SpecDirectional *)

\* the first frame index of a configured, non-empty list is index
FirstIs(textures, index_) ==
    /\ textures.set
    /\ textures.val # <<>>
    /\ textures.val[1] = index_

\* C17: the facing is left or right, and an update returns without an error;
\* when change_y is not 0 it makes the active frame the first jump frame of
\* the facing, and when change_y and change_x are both 0 the first stand
\* frame of the facing.
C17_StandJumpSelection ==
    [][last'.op = "update" =>
           \A s \in Built :
               LET sp == sprites[s]
                   post == sprites'[s]
               IN  /\ sp.facing \in {"left", "right"}
                   /\ err' = "none"
                   /\ sp.change_y # 0 =>
                          FirstIs(IF sp.facing = "right"
                                  THEN sp.jump_right_textures
                                  ELSE sp.jump_left_textures,
                                  post.cur_texture_index)
                   /\ (sp.change_y = 0 /\ sp.change_x = 0) =>
                          FirstIs(IF sp.facing = "right"
                                  THEN sp.right_stand_textures
                                  ELSE sp.left_stand_textures,
                                  post.cur_texture_index)]_vars

\* C18, as the specification states it: go_right sets change_x to +speed only
\* when change_x is not positive already and go_left to -speed only when it
\* is not negative already; stop_right zeroes a positive change_x and
\* stop_left a negative one; nothing else of the sprite changes.
C18_GoKeepsExistingVelocity ==
    [][\A s \in Built :
           LET sp == sprites[s]
               post == sprites'[s]
           IN  /\ last'.op = "go_right" =>
                      post = IF sp.change_x > 0 THEN sp
                             ELSE [sp EXCEPT !.change_x = sp.speed]
               /\ last'.op = "go_left" =>
                      post = IF sp.change_x < 0 THEN sp
                             ELSE [sp EXCEPT !.change_x = -sp.speed]
               /\ last'.op = "stop_right" =>
                      post = IF sp.change_x > 0 THEN [sp EXCEPT !.change_x = 0]
                             ELSE sp
               /\ last'.op = "stop_left" =>
                      post = IF sp.change_x < 0 THEN [sp EXCEPT !.change_x = 0]
                             ELSE sp]_vars

\* C18, amended: go_right sets change_x to +speed and go_left to -speed
\* whatever change_x was; stop_right zeroes change_x only when it is positive
\* and stop_left only when it is negative, so a stop_right leaves a leftward
\* velocity as it is; none of the four raises, and none changes the facing,
\* change_y, the position or anything else of the sprite.
C18_MovementCommands ==
    [][\A s \in Built :
           LET sp == sprites[s]
               post == sprites'[s]
           IN  /\ last'.op = "go_right" =>
                      post = [sp EXCEPT !.change_x = sp.speed] /\ err' = "none"
               /\ last'.op = "go_left" =>
                      post = [sp EXCEPT !.change_x = -sp.speed] /\ err' = "none"
               /\ last'.op = "stop_right" =>
                      /\ post = IF sp.change_x > 0
                                THEN [sp EXCEPT !.change_x = 0] ELSE sp
                      /\ err' = "none"
               /\ last'.op = "stop_left" =>
                      /\ post = IF sp.change_x < 0
                                THEN [sp EXCEPT !.change_x = 0] ELSE sp
                      /\ err' = "none"]_vars

\* a stop_right has just left a leftward velocity of the speed as it was
C18_Witness ==
    /\ last.op = "stop_right"
    /\ sprites["s1"].change_x = -sprites["s1"].speed

\* C20: the update of the directional sprite leaves center_x, center_y and
\* angle of every sprite as they were, whatever the velocities are, and
\* changes no list.
C20_UpdateDoesNotMove ==
    [][last'.op = "update" =>
           /\ sprite_list' = sprite_list
           /\ \A s \in SpriteIds :
                  /\ sprites'[s].center_x = sprites[s].center_x
                  /\ sprites'[s].center_y = sprites[s].center_y
                  /\ sprites'[s].angle = sprites[s].angle]_vars

\* an update has just selected a frame for a sprite whose three velocities
\* are not 0
C20_Witness ==
    /\ last.op = "update"
    /\ err = "none"
    /\ sprites["s1"].texture.kind = "Texture"
    /\ sprites["s1"].change_x # 0
    /\ sprites["s1"].change_y # 0
    /\ sprites["s1"].change_angle # 0

=============================================================================
